---- MODULE Spec2Model ----
(***************************************************************************)
(* Model of the rate limiter of lambda_function.py: the Lambda handler,    *)
(* the account lookup (get_rate_limit_info) and the increment-or-create    *)
(* step (update_rate_limit_info) over two DynamoDB tables, RL_AI and       *)
(* Users.  Every store round trip is one atomic step, so concurrent        *)
(* requests interleave between their store operations.                     *)
(*                                                                         *)
(* DynamoDB semantics used by the model:                                   *)
(*   - UpdateItem without ConditionExpression is an upsert: on a key with  *)
(*     no item it creates the item from the key and the SET clauses;       *)
(*   - PutItem replaces the whole item;                                    *)
(*   - the TTL sweep deletes an item whose TTL attribute is less than the  *)
(*     current time, and never touches an item without the attribute;      *)
(*   - a store fault raises in the caller and applies nothing.             *)
(***************************************************************************)
EXTENDS Integers, FiniteSets, Sequences, TLC

\* ------------------------------------------------------------- bounds
MaxReqs == 2
MaxTime == 122
MaxDrift == 2

\* ---------------------------------------------------------- constants
TTL_S == 60
DefaultLimit == 2

Reqs == 1..MaxReqs
Keys == {"A", "B"}
Absent == "<None>"
ClientIds == Keys \cup {"", Absent}
Sessions == {"s", "", Absent}
NoTTL == -1
NoItem == [present |-> FALSE, invocations |-> 0, ttl |-> NoTTL]
NoAccount == [present |-> FALSE, limit |-> 0]

VARIABLES
  now,            \* time.time(), whole seconds; MaxTime stands for any later time
  late,           \* seconds elapsed past MaxTime, modulo 2
  table,          \* RL_AI: associated_account -> item (invocations, ttl)
  user_table,     \* Users: id -> item
  pc,             \* position of each request
  client_id,      \* parsed_event.get('client_id')
  session_id,     \* parsed_event.get('session')
  limit,          \* effective limit resolved from the account lookup
  ttl_timestamp,  \* local of update_rate_limit_info
  count,          \* new_count: the invocations value this request's write left
  status,         \* status code of the response
  admitted,       \* verdict of the response
  muts,           \* history: successful RL_AI writes made by the request
  nth,            \* history: ordinal of the request's write since the key had no item
  reborn,         \* history: the key had been swept before the request's write
  served,         \* history: writes on the key since it last had no item
  swept,          \* history: the TTL sweep has removed an item of the key
  created,        \* history: time at which the key's current item came to exist
  faulted         \* history: some store operation has failed

vars == <<now, late, table, user_table, pc, client_id, session_id, limit,
          ttl_timestamp, count, status, admitted, muts, nth, reborn,
          served, swept, created, faulted>>

reqvars == <<pc, client_id, session_id, limit, ttl_timestamp, count,
             status, admitted, muts, nth, reborn>>

hist == <<served, swept, created>>

\* Python truthiness of an event field: None and '' are falsy.
Falsy(v) == v \in {"", Absent}

Init ==
  /\ now = 0
  /\ late = 0
  /\ table = [k \in Keys |-> NoItem]
  /\ user_table = [k \in Keys |-> IF k = "A" THEN [present |-> TRUE, limit |-> 1]
                                            ELSE NoAccount]
  /\ pc = [r \in Reqs |-> "idle"]
  /\ client_id = [r \in Reqs |-> Absent]
  /\ session_id = [r \in Reqs |-> Absent]
  /\ limit = [r \in Reqs |-> 0]
  /\ ttl_timestamp = [r \in Reqs |-> 0]
  /\ count = [r \in Reqs |-> 0]
  /\ status = [r \in Reqs |-> 0]
  /\ admitted = [r \in Reqs |-> FALSE]
  /\ muts = [r \in Reqs |-> 0]
  /\ nth = [r \in Reqs |-> 0]
  /\ reborn = [r \in Reqs |-> FALSE]
  /\ served = [k \in Keys |-> 0]
  /\ swept = [k \in Keys |-> FALSE]
  /\ created = [k \in Keys |-> 0]
  /\ faulted = FALSE

\* create_response(code, body): the request ends with one response.
create_response(r, code, verdict) ==
  /\ pc' = [pc EXCEPT ![r] = "done"]
  /\ status' = [status EXCEPT ![r] = code]
  /\ admitted' = [admitted EXCEPT ![r] = verdict]

\* lambda_handler with the validation written "not client_id and not session_id".
lambda_handler_and(r) ==
  /\ pc[r] = "idle"
  /\ \A q \in Reqs : q < r => pc[q] # "idle"
  /\ \E c \in ClientIds, s \in Sessions :
       /\ client_id' = [client_id EXCEPT ![r] = c]
       /\ session_id' = [session_id EXCEPT ![r] = s]
       /\ IF Falsy(c) /\ Falsy(s)
            THEN create_response(r, 400, FALSE)
            ELSE /\ pc' = [pc EXCEPT ![r] = "lookup"]
                 /\ UNCHANGED <<status, admitted>>
  /\ UNCHANGED <<now, late, table, user_table, limit, ttl_timestamp, count, muts,
                 nth, reborn, served, swept, created, faulted>>

\* lambda_handler, up to the call of process_rate_limit_request.
lambda_handler(r) ==
  /\ pc[r] = "idle"
  /\ \A q \in Reqs : q < r => pc[q] # "idle"
  /\ \E c \in ClientIds, s \in Sessions :
       /\ client_id' = [client_id EXCEPT ![r] = c]
       /\ session_id' = [session_id EXCEPT ![r] = s]
       /\ IF Falsy(c) \/ Falsy(s)
            THEN create_response(r, 400, FALSE)
            ELSE /\ pc' = [pc EXCEPT ![r] = "lookup"]
                 /\ UNCHANGED <<status, admitted>>
  /\ UNCHANGED <<now, late, table, user_table, limit, ttl_timestamp, count, muts,
                 nth, reborn, served, swept, created, faulted>>

\* Effective limit: the account's override when the item has one.
EffectiveLimit(item) == IF item.present THEN item.limit ELSE DefaultLimit

\* get_rate_limit_info written as response['Item']: a missing item raises.
get_rate_limit_info_keyerror(r) ==
  /\ pc[r] = "lookup"
  /\ \/ /\ client_id[r] \in Keys
        /\ user_table[client_id[r]].present
        /\ limit' = [limit EXCEPT ![r] = EffectiveLimit(user_table[client_id[r]])]
        /\ pc' = [pc EXCEPT ![r] = "entry"]
        /\ UNCHANGED <<status, admitted, faulted>>
     \/ /\ client_id[r] \in Keys
        /\ ~user_table[client_id[r]].present
        /\ create_response(r, 500, FALSE)
        /\ UNCHANGED <<limit, faulted>>
     \/ /\ create_response(r, 500, FALSE)
        /\ faulted' = TRUE
        /\ UNCHANGED limit
  /\ UNCHANGED <<now, late, table, user_table, client_id, session_id, ttl_timestamp,
                 count, muts, nth, reborn, served, swept, created>>

\* get_rate_limit_info: user_table.get_item; {} when there is no item.
get_rate_limit_info(r) ==
  /\ pc[r] = "lookup"
  /\ \/ /\ client_id[r] \in Keys
        /\ limit' = [limit EXCEPT ![r] = EffectiveLimit(user_table[client_id[r]])]
        /\ pc' = [pc EXCEPT ![r] = "entry"]
        /\ UNCHANGED <<status, admitted, faulted>>
     \/ /\ create_response(r, 500, FALSE)
        /\ faulted' = TRUE
        /\ UNCHANGED limit
  /\ UNCHANGED <<now, late, table, user_table, client_id, session_id, ttl_timestamp,
                 count, muts, nth, reborn, served, swept, created>>

\* update_rate_limit_info, line 57: ttl_timestamp = int(time.time()) + TTL_S.
compute_ttl(r) ==
  /\ pc[r] = "entry"
  /\ now + TTL_S < MaxTime
  /\ ttl_timestamp' = [ttl_timestamp EXCEPT ![r] = now + TTL_S]
  /\ pc' = [pc EXCEPT ![r] = "update"]
  /\ UNCHANGED <<now, late, table, user_table, client_id, session_id, limit, count,
                 status, admitted, muts, nth, reborn, served, swept, created,
                 faulted>>

\* if_not_exists(invocations, :zero)
if_not_exists(item, zero) == IF item.present THEN item.invocations ELSE zero

\* History kept with every successful write of request r on key k.
Written(r, k, n) ==
  /\ count' = [count EXCEPT ![r] = n]
  /\ muts' = [muts EXCEPT ![r] = @ + 1]
  /\ nth' = [nth EXCEPT ![r] = served[k] + 1]
  /\ reborn' = [reborn EXCEPT ![r] = swept[k]]
  /\ served' = [served EXCEPT ![k] = @ + 1]
  /\ created' = [created EXCEPT ![k] = IF table[k].present THEN @ ELSE now]

\* update_item followed by put_item also when the update succeeded.
update_item_fallthrough(r) ==
  /\ pc[r] = "update"
  /\ \/ /\ client_id[r] \in Keys
        /\ LET k == client_id[r]
               n == if_not_exists(table[k], 1) + 1
           IN /\ table' = [table EXCEPT ![k] =
                             [present |-> TRUE, invocations |-> n, ttl |-> @.ttl]]
              /\ Written(r, k, n)
        /\ pc' = [pc EXCEPT ![r] = "put"]
        /\ UNCHANGED faulted
     \/ /\ pc' = [pc EXCEPT ![r] = "put"]
        /\ faulted' = TRUE
        /\ UNCHANGED <<table, count, muts, nth, reborn, served, created>>
  /\ UNCHANGED <<now, late, user_table, client_id, session_id, limit, ttl_timestamp,
                 status, admitted, swept>>

\* table.update_item(SET invocations = if_not_exists(invocations, :zero) + :inc)
\* with :zero = 1 and :inc = 1; any exception leads to the put_item fallback.
update_item(r) ==
  /\ pc[r] = "update"
  /\ \/ /\ client_id[r] \in Keys
        /\ LET k == client_id[r]
               n == if_not_exists(table[k], 1) + 1
           IN /\ table' = [table EXCEPT ![k] =
                             [present |-> TRUE, invocations |-> n, ttl |-> @.ttl]]
              /\ Written(r, k, n)
        /\ pc' = [pc EXCEPT ![r] = "verdict"]
        /\ UNCHANGED faulted
     \/ /\ pc' = [pc EXCEPT ![r] = "put"]
        /\ faulted' = TRUE
        /\ UNCHANGED <<table, count, muts, nth, reborn, served, created>>
  /\ UNCHANGED <<now, late, user_table, client_id, session_id, limit, ttl_timestamp,
                 status, admitted, swept>>

\* put_item whose failure is answered by trying update_item again.
put_item_retry(r) ==
  /\ pc[r] = "put"
  /\ \/ /\ client_id[r] \in Keys
        /\ LET k == client_id[r]
           IN /\ table' = [table EXCEPT ![k] =
                             [present |-> TRUE, invocations |-> 1,
                              ttl |-> ttl_timestamp[r]]]
              /\ Written(r, k, 1)
        /\ pc' = [pc EXCEPT ![r] = "verdict"]
        /\ UNCHANGED faulted
     \/ /\ pc' = [pc EXCEPT ![r] = "update"]
        /\ faulted' = TRUE
        /\ UNCHANGED <<table, count, muts, nth, reborn, served, created>>
  /\ UNCHANGED <<now, late, user_table, client_id, session_id, limit, ttl_timestamp,
                 status, admitted, swept>>

\* put_item followed by a statement that raises after the item was written.
put_item_raise_after(r) ==
  /\ pc[r] = "put"
  /\ \/ /\ client_id[r] \in Keys
        /\ LET k == client_id[r]
           IN /\ table' = [table EXCEPT ![k] =
                             [present |-> TRUE, invocations |-> 1,
                              ttl |-> ttl_timestamp[r]]]
              /\ Written(r, k, 1)
        /\ create_response(r, 500, FALSE)
        /\ UNCHANGED faulted
     \/ /\ create_response(r, 500, FALSE)
        /\ faulted' = TRUE
        /\ UNCHANGED <<table, count, muts, nth, reborn, served, created>>
  /\ UNCHANGED <<now, late, user_table, client_id, session_id, limit, ttl_timestamp,
                 swept>>

\* table.put_item(invocations = 1, ttl = ttl_timestamp); an exception is
\* logged and raised again, and lambda_handler answers 500.
put_item(r) ==
  /\ pc[r] = "put"
  /\ \/ /\ client_id[r] \in Keys
        /\ LET k == client_id[r]
           IN /\ table' = [table EXCEPT ![k] =
                             [present |-> TRUE, invocations |-> 1,
                              ttl |-> ttl_timestamp[r]]]
              /\ Written(r, k, 1)
        /\ pc' = [pc EXCEPT ![r] = "verdict"]
        /\ UNCHANGED <<status, admitted, faulted>>
     \/ /\ create_response(r, 500, FALSE)
        /\ faulted' = TRUE
        /\ UNCHANGED <<table, count, muts, nth, reborn, served, created>>
  /\ UNCHANGED <<now, late, user_table, client_id, session_id, limit, ttl_timestamp,
                 swept>>

\* The verdict and create_response(200, result).
verdict(r) ==
  /\ pc[r] = "verdict"
  /\ create_response(r, 200, count[r] <= limit[r])
  /\ UNCHANGED <<now, late, table, user_table, client_id, session_id, limit,
                 ttl_timestamp, count, muts, nth, reborn, served, swept,
                 created, faulted>>

\* The clock.  Every ttl in the model is below MaxTime, so all times from
\* MaxTime on are alike for the store and the clock keeps running there.
Tick ==
  /\ \/ /\ \E d \in {1, TTL_S} :
             /\ now + d <= MaxTime
             /\ d = 1 => (now % TTL_S) < MaxDrift
             /\ now' = now + d
        /\ UNCHANGED late
     \/ /\ now = MaxTime
        /\ late' = 1 - late
        /\ UNCHANGED now
  /\ UNCHANGED <<table, user_table, reqvars, hist, faulted>>

\* The store's TTL sweep.
Sweep(k) ==
  /\ table[k].present
  /\ table[k].ttl # NoTTL
  /\ table[k].ttl < now
  /\ table' = [table EXCEPT ![k] = NoItem]
  /\ served' = [served EXCEPT ![k] = 0]
  /\ swept' = [swept EXCEPT ![k] = TRUE]
  /\ created' = [created EXCEPT ![k] = 0]
  /\ UNCHANGED <<now, late, user_table, reqvars, faulted>>

Next ==
  \/ \E r \in Reqs : lambda_handler(r)
  \/ \E r \in Reqs : get_rate_limit_info(r)
  \/ \E r \in Reqs : compute_ttl(r)
  \/ \E r \in Reqs : update_item(r)
  \/ \E r \in Reqs : put_item(r)
  \/ \E r \in Reqs : verdict(r)
  \/ Tick
  \/ \E k \in Keys : Sweep(k)

Spec == Init /\ [][Next]_vars

TypeOK ==
  /\ now \in 0..MaxTime
  /\ late \in 0..1
  /\ \A k \in Keys : table[k].invocations \in 0..(MaxReqs + 1)
  /\ \A r \in Reqs : pc[r] \in {"idle", "lookup", "entry", "update", "put",
                                "verdict", "done"}
\* Fairness of the environment: time advances and the TTL sweep runs.
FairSpec == Spec /\ WF_vars(Tick) /\ \A k \in Keys : WF_vars(Sweep(k))

Invalid(c, s) == Falsy(c) \/ Falsy(s)
Finished(r) == pc[r] = "done"
Admitted(r) == Finished(r) => (status[r] = 200 /\ admitted[r])
Rejected(r) == Finished(r) => (status[r] = 200 /\ ~admitted[r])

\* C1: the first request of a key with no record leaves a record with
\* invocation count 1, and its verdict is admitted with current_count = 1.
C1_FirstRequestCountsOne ==
  /\ \A r \in Reqs : nth[r] = 1 => (count[r] = 1 /\ Admitted(r))
  /\ \A k \in Keys : (table[k].present /\ served[k] = 1) => table[k].invocations = 1

\* C2: the i-th request of a window, i <= limit, is admitted and reports
\* the count i.
C2_CountsOneToN ==
  \A r \in Reqs :
    (nth[r] >= 1 /\ nth[r] <= limit[r]) => (count[r] = nth[r] /\ Admitted(r))

\* C3: request number limit+1 of a window is rejected with current_count =
\* limit+1, and a request is rejected exactly when its count exceeds the limit.
C3_RejectAtLimitPlusOne ==
  /\ \A r \in Reqs :
       nth[r] = limit[r] + 1 => (count[r] = limit[r] + 1 /\ Rejected(r))
  /\ \A r \in Reqs :
       (Finished(r) /\ status[r] = 200) => (~admitted[r] <=> count[r] > limit[r])

\* C4: with no store faults, once K requests for the same fresh key have all
\* finished, under any interleaving, the stored invocation count is K.
RequestsOf(k) == {r \in Reqs : pc[r] # "idle" /\ client_id[r] = k /\ ~Falsy(session_id[r])}
C4_NoLostUpdate ==
  \A k \in Keys :
    (/\ ~faulted
     /\ Cardinality(RequestsOf(k)) >= 2
     /\ \A r \in RequestsOf(k) : Finished(r))
    => (table[k].present /\ table[k].invocations = Cardinality(RequestsOf(k)))

\* C5: the first request after the store expired the key's record has
\* count 1 and is admitted.
C5_ResetAfterExpiry ==
  \A r \in Reqs : (nth[r] = 1 /\ reborn[r]) => (count[r] = 1 /\ Admitted(r))

\* C6: a request with an empty or absent client_id or session ends with
\* status 400 and performs no store operation; both tables are unchanged.
C6_InvalidStep ==
  \A r \in Reqs :
    (pc'[r] # "idle" /\ Invalid(client_id'[r], session_id'[r]))
    => /\ pc'[r] = "done"
       /\ status'[r] = 400
       /\ muts'[r] = 0
       /\ pc[r] # "done" => (table' = table /\ user_table' = user_table)
C6_InvalidRequest == [][C6_InvalidStep]_vars
C6_Witness ==
  \E r \in Reqs :
    /\ Finished(r) /\ status[r] = 400
    /\ client_id[r] \in Keys /\ Falsy(session_id[r])
    /\ \E q \in Reqs : q # r /\ muts[q] = 1

\* C7: every record carries an expiry timestamp equal to its creation time
\* plus the window, and no later request changes it.
C7_ExpiryState ==
  \A k \in Keys :
    table[k].present => (table[k].ttl # NoTTL /\ table[k].ttl = created[k] + TTL_S)
C7_ExpiryStep ==
  \A k \in Keys :
    (table[k].present /\ table'[k].present) => table'[k].ttl = table[k].ttl
C7_ExpirySetOnce == []C7_ExpiryState /\ [][C7_ExpiryStep]_vars

\* C8: every record that comes to exist is eventually removed by the TTL
\* sweep, so every key returns to the no-record state.
C8_EventuallyExpired ==
  \A k \in Keys : table[k].present ~> ~table[k].present

\* C9: while a record exists, every step leaves its invocation count
\* unchanged or raises it by exactly 1.
C9_CountStep ==
  \A k \in Keys :
    (table[k].present /\ table'[k].present)
    => table'[k].invocations \in {table[k].invocations, table[k].invocations + 1}
C9_CountMonotonic == [][C9_CountStep]_vars

\* Frame of a request step: only the record of the request's own key may
\* change, and the account table never changes.
C10_Frame ==
  /\ user_table' = user_table
  /\ \A r \in Reqs :
       pc'[r] # pc[r] =>
         \A k \in Keys : k # client_id'[r] => table'[k] = table[k]

\* C10 as stated: every valid request performs exactly one successful
\* mutation of the rate-limit table, on its own key only.
C10_OneMutationPerValidRequest ==
  [][/\ C10_Frame
     /\ \A r \in Reqs :
          (pc'[r] = "done" /\ ~Invalid(client_id'[r], session_id'[r]))
          => muts'[r] = 1]_vars

\* C10 amended: every valid request that ends with a verdict, admitted or
\* rejected, has performed exactly one successful mutation, on its own key
\* only; a valid request that ends with a store error has performed none.
C10_OneMutationPerVerdict ==
  [][/\ C10_Frame
     /\ \A r \in Reqs :
          (pc'[r] = "done" /\ ~Invalid(client_id'[r], session_id'[r]))
          => /\ status'[r] \in {200, 500}
             /\ status'[r] = 200 => muts'[r] = 1
             /\ status'[r] = 500 => muts'[r] = 0]_vars
C10_Witness ==
  \E r \in Reqs :
    /\ Finished(r) /\ status[r] = 200 /\ ~admitted[r] /\ muts[r] = 1
    /\ \E q \in Reqs : Finished(q) /\ status[q] = 500 /\ client_id[q] \in Keys
                       /\ ~Falsy(session_id[q])

\* Request r ends in this step.
Ends(r) == pc[r] # "done" /\ pc'[r] = "done"

\* C11: every request ends with exactly one outcome: a verdict (200), the
\* client-fault error (400) for an invalid request, or the server-fault
\* error (500); a store failure in the account lookup or in the increment
\* gives 500 and never a verdict.
C11_OutcomeStep ==
  \A r \in Reqs :
    /\ Ends(r) =>
         /\ status'[r] \in {200, 400, 500}
         /\ status'[r] = 400 <=> Invalid(client_id'[r], session_id'[r])
         /\ status'[r] = 200 => pc[r] = "verdict"
         /\ status'[r] # 200 => ~admitted'[r]
    /\ (pc[r] = "lookup" /\ Ends(r)) => status'[r] = 500
    /\ (pc[r] = "put" /\ pc'[r] # "put") => (Ends(r) /\ status'[r] = 500)
C11_OneOutcome == [][C11_OutcomeStep]_vars

\* C12: the account lookup for a key with no account record returns the
\* empty mapping, the request goes on with the system defaults, and the
\* lookup mutates neither table; it ends in an error only on a store fault.
C12_LookupStep ==
  \A r \in Reqs :
    (pc[r] = "lookup" /\ pc'[r] # "lookup") =>
      /\ table' = table /\ user_table' = user_table
      /\ Ends(r) => (faulted' /\ status'[r] = 500)
      /\ (~Ends(r) /\ ~user_table[client_id[r]].present) =>
           (pc'[r] = "entry" /\ limit'[r] = DefaultLimit)
C12_NotFoundIsNoError == [][C12_LookupStep]_vars
C12_Witness ==
  \E r \in Reqs :
    /\ client_id[r] \in Keys /\ ~user_table[client_id[r]].present
    /\ Finished(r) /\ status[r] = 200 /\ admitted[r] /\ limit[r] = DefaultLimit

\* C13: the create fallback is attempted only when the increment failed
\* because the record does not exist; a failed increment on an existing
\* record attempts no creation, leaves the record and surfaces as an error.
C13_FallbackStep ==
  \A r \in Reqs :
    /\ (pc[r] = "update" /\ pc'[r] = "put") => ~table[client_id[r]].present
    /\ (pc[r] = "update" /\ pc'[r] \notin {"update", "verdict"}
          /\ table[client_id[r]].present)
       => (table' = table /\ Ends(r) /\ status'[r] = 500)
C13_FallbackOnlyWhenMissing == [][C13_FallbackStep]_vars

\* C14: the create step never overwrites a record that already exists:
\* the existing count and expiry are preserved by it.
C14_CreateStep ==
  \A r \in Reqs :
    (pc[r] = "put" /\ pc'[r] # "put" /\ table[client_id[r]].present)
    => table'[client_id[r]] = table[client_id[r]]
C14_CreateNeverOverwrites == [][C14_CreateStep]_vars

\* Position of a request, as a variant of its run.
Rank(p) ==
  CASE p = "idle" -> 0
    [] p = "lookup" -> 1
    [] p = "entry" -> 2
    [] p = "update" -> 3
    [] p = "put" -> 4
    [] p = "verdict" -> 5
    [] p = "done" -> 6

\* C15: every run of the increment-or-create step terminates: each of its
\* steps moves the request strictly forward, a step is always possible, the
\* increment is tried once and the create at most once, and when the store
\* keeps failing the run ends with the error.
C15_ForwardStep ==
  \A r \in Reqs :
    pc'[r] # pc[r] =>
      /\ Rank(pc'[r]) > Rank(pc[r])
      /\ pc[r] = "update" => pc'[r] \in {"put", "verdict"}
      /\ pc[r] = "put" => (pc'[r] = "verdict" \/ (Ends(r) /\ status'[r] = 500))
C15_NeverBlocked ==
  \A r \in Reqs :
    pc[r] \in {"update", "put"} => ENABLED (update_item(r) \/ put_item(r))
C15_BoundedRun == []C15_NeverBlocked /\ [][C15_ForwardStep]_vars
C15_Witness ==
  \E r \in Reqs :
    /\ Finished(r) /\ status[r] = 500 /\ limit[r] >= 1 /\ muts[r] = 0
    /\ \E q \in Reqs : q # r /\ pc[q] = "put"

\* C16: when the increment-or-create step ends by raising, none of its
\* store operations has been applied; when it returns normally, exactly one
\* write has been applied, on the request's own key.
C16_StepOutcome ==
  \A r \in Reqs :
    /\ (pc[r] \in {"update", "put"} /\ Ends(r)) =>
         (status'[r] = 500 /\ muts'[r] = 0 /\ table' = table)
    /\ (pc[r] = "update" /\ pc'[r] = "put") =>
         (muts'[r] = 0 /\ table' = table)
    /\ (pc[r] \in {"update", "put"} /\ pc'[r] = "verdict") =>
         /\ muts[r] = 0 /\ muts'[r] = 1
         /\ table'[client_id[r]].present
         /\ table'[client_id[r]].invocations = count'[r]
         /\ \A k \in Keys : k # client_id[r] => table'[k] = table[k]
C16_ErrorAppliesNothing == [][C16_StepOutcome]_vars
C16_Witness ==
  \E r \in Reqs :
    /\ Finished(r) /\ status[r] = 500 /\ limit[r] >= 1 /\ muts[r] = 0
    /\ \E q \in Reqs : q # r /\ pc[q] = "verdict" /\ muts[q] = 1
====
